---- MODULE Spec2Model ----
(***************************************************************************)
(* SpendWise: the recurrence planner (recurring.service.ts) and the group  *)
(* ledger (splits, balances, settlement suggestions, recorded payments).   *)
(*                                                                         *)
(* Time.  An instant is an integer number of ticks of UTC time, with       *)
(* TicksPerDay ticks in a day; day 0 is 2024-01-01.  A date string         *)
(* 'YYYY-MM-DD' is the number of its day.  The device's zone is tz ticks   *)
(* east of UTC.  parseISO of a date string is the instant of LOCAL         *)
(* midnight of that day; toISOString().split('T')[0] is the UTC day of an  *)
(* instant; toDateString() is the local day of an instant.                 *)
(***************************************************************************)
EXTENDS Integers, Sequences, FiniteSets, TLC

VARIABLES
    clock,       \* the wall clock (new Date()), an instant
    tz,          \* the device's offset from UTC, in ticks (east positive)
    rules,       \* table recurring_expenses: a sequence of rows
    expenses,    \* table expenses: the rows inserted by createExpense, in order
    runs,        \* the state of each invocation of generateRecurringExpenses
    crashes,     \* how many times the process died
    members,     \* the group's members, in createdAt order
    groupExpenses, \* the group's expenses, each with its splits
    payments,    \* table payments of the group
    balances,    \* SettleUp screen state: balances
    settlements, \* SettleUp screen state: settlement suggestions
    payForm,     \* SettleUp screen state: fromMemberId, toMemberId, amount
    lastSubmit,  \* outcome of the last handleSubmit of the AddExpense screen
    expenseSplits, \* table expense_splits (SQLite), in insertion order
    splitDocs,   \* the splits documents of the group's expenses (Firestore)
    lastSplit,   \* the last split operation: its arguments and what it wrote
    storeExpenses, \* useExpenseStore: the expenses list, in memory
    undoHistory, \* table undo_history, oldest entry first
    nextId,      \* the next identifier generateUUID gives to an expense
    lastOp,      \* the last operation of the expense store and its outcome
    encryptionKey, \* crypto service: TRUE when the key is held in memory
    keychainOk,  \* the device keychain can be read
    settings,    \* settings service: biometricEnabled, autoLockTimeout, lastActiveTime
    appContent,  \* App.tsx AppContent: appState.current, isInitialized, isLocked
    isLocked,    \* biometric service: the module's isLocked
    wallMinutes, \* Date.now(), in minutes
    sensorAvailable, \* rnBiometrics.isSensorAvailable()
    seen,        \* what has happened since the last lock (for the claims)
    groupDocs,   \* Firestore: the groups, their members and their expenses
    deleteRun,   \* the last deleteGroup: its group and the callbacks it left
    undoCalls    \* the calls of undoLastAction in flight: the entry each one read

plannerVars == <<clock, tz, rules, expenses, runs, crashes>>
ledgerVars == <<members, groupExpenses, payments, balances, settlements, payForm, lastSubmit>>
splitVars == <<expenseSplits, splitDocs, lastSplit>>
undoVars == <<storeExpenses, undoHistory, nextId, lastOp>>
boxVars == <<encryptionKey, keychainOk>>
lifeVars == <<settings, appContent, isLocked, wallMinutes, sensorAvailable, seen>>
groupVars == <<groupDocs, deleteRun>>
callVars == <<undoCalls>>
appVars == <<splitVars, undoVars, boxVars, lifeVars, groupVars, callVars>>
otherThanSplit == <<plannerVars, ledgerVars, undoVars, boxVars, lifeVars, groupVars, callVars>>
vars == <<clock, tz, rules, expenses, runs, crashes, members, groupExpenses, payments,
          balances, settlements, payForm, lastSubmit, expenseSplits, splitDocs, lastSplit,
          storeExpenses, undoHistory, nextId, lastOp, encryptionKey, keychainOk,
          settings, appContent, isLocked, wallMinutes, sensorAvailable, seen,
          groupDocs, deleteRun, undoCalls>>

----------------------------------------------------------------------------
(* Bounds of the model *)

TicksPerDay == 2
DayStep == 15          \* the planner is looked at every DayStep days ...
MaxSteps == 7          \* ... up to day DayStep * MaxSteps (2024-04-15)
MaxCrashes == 1        \* the process dies at most MaxCrashes times

Null == 0 - 1000       \* SQL NULL / undefined in a date column

----------------------------------------------------------------------------
(* Dates *)

\* parseISO('YYYY-MM-DD'): local midnight of the day
parseISODate(day) == day * TicksPerDay - tz

\* toISOString().split('T')[0]: the UTC day of an instant
toISODate(t) == t \div TicksPerDay

\* toDateString(): the local day of an instant
toDateString(t) == (t + tz) \div TicksPerDay

\* the local time of day of an instant, in ticks
LocalTimeOfDay(t) == (t + tz) % TicksPerDay

isBefore(a, b) == a < b

\* days in each month of 2024
DaysInMonth(m) == <<31, 29, 31, 30, 31, 30, 31, 31, 30, 31, 30, 31>>[(m % 12) + 1]

RECURSIVE MonthStart(_)
MonthStart(m) == IF m = 0 THEN 0 ELSE MonthStart(m - 1) + DaysInMonth(m - 1)

getMonth(day) == CHOOSE m \in 0..23 : MonthStart(m) <= day /\ day < MonthStart(m + 1)

getDate(day) == day - MonthStart(getMonth(day)) + 1

addDays(t, n) == t + n * TicksPerDay

addWeeks(t, n) == addDays(t, 7 * n)

\* date-fns addMonths: same day of the month, clamped to the last day of the
\* target month; the local time of day is kept
addMonths(t, n) ==
    LET day == toDateString(t)
        m == getMonth(day) + n
        dom == IF getDate(day) >= DaysInMonth(m) THEN DaysInMonth(m) ELSE getDate(day)
    IN  (MonthStart(m) + dom - 1) * TicksPerDay + LocalTimeOfDay(t) - tz

getNextDate(date, interval, value) ==
    CASE interval = "daily" -> addDays(date, value)
      [] interval = "weekly" -> addWeeks(date, value)
      [] interval = "monthly" -> addMonths(date, value)
      [] interval = "custom" -> addDays(date, value)
      [] OTHER -> addDays(date, 1)

----------------------------------------------------------------------------
(* The recurrence planner: generateRecurringExpenses *)

Runs == {1, 2}

\* prev: the now of the run before this one, kept until this run reads the
\* clock; repeat: this run read the same now as the run before it
IdleRun == [pc |-> "idle", patterns |-> <<>>, now |-> Null, prev |-> Null,
            repeat |-> FALSE, idx |-> 0, currentDate |-> Null, generated |-> <<>>]

\* "Skip if pattern has ended"
PatternEnded(pattern, now) ==
    pattern.endDate # Null /\ isBefore(parseISODate(pattern.endDate), now)

\* the first currentDate of a pattern
FirstDate(pattern) ==
    getNextDate(IF pattern.lastGenerated # Null THEN pattern.lastGenerated
                ELSE parseISODate(pattern.startDate),
                pattern.interval, pattern.intervalValue)

\* the while condition and the break inside the loop: TRUE when the body
\* goes on to create an expense for currentDate
LoopCreates(pattern, currentDate, now) ==
    /\ isBefore(currentDate, now) \/ toDateString(currentDate) = toDateString(now)
    /\ ~(pattern.endDate # Null /\ isBefore(parseISODate(pattern.endDate), currentDate))

\* the for loop from pattern idx on: the first pattern that creates an
\* expense, with its currentDate; idx beyond the list when there is none
RECURSIVE NextStop(_, _, _)
NextStop(patterns, idx, now) ==
    IF idx > Len(patterns) THEN [idx |-> idx, currentDate |-> Null]
    ELSE IF ~PatternEnded(patterns[idx], now)
            /\ LoopCreates(patterns[idx], FirstDate(patterns[idx]), now)
         THEN [idx |-> idx, currentDate |-> FirstDate(patterns[idx])]
         ELSE NextStop(patterns, idx + 1, now)

\* createExpense as the planner calls it: INSERT_EXPENSE takes amount, category
\* and description from the object it is given, group_id is always NULL
createExpense(pattern, currentDate, r) ==
    [amount |-> pattern.amount, category |-> pattern.category,
     description |-> pattern.description, date |-> toISODate(currentDate),
     groupId |-> Null, rule |-> pattern.id, by |-> r]

\* UPDATE_RECURRING ... WHERE id = pattern.id, written from the run's copy
UpdateRecurringStale(table, pattern, currentDate) ==
    [i \in DOMAIN table |-> IF table[i].id = pattern.id THEN pattern ELSE table[i]]

UpdateRecurring(table, pattern, currentDate) ==
    [i \in DOMAIN table |->
        IF table[i].id = pattern.id
        THEN [pattern EXCEPT !.lastGenerated = currentDate]
        ELSE table[i]]

\* the run goes on from stop: it creates the expense of stop, or it returns
Continue(r, run, stop, table) ==
    IF stop.idx > Len(run.patterns)
    THEN /\ runs' = [runs EXCEPT ![r] = [run EXCEPT !.pc = "done", !.idx = stop.idx,
                                                    !.currentDate = Null]]
         /\ expenses' = expenses
         /\ rules' = table
    ELSE /\ runs' = [runs EXCEPT ![r] = [run EXCEPT !.pc = "creating", !.idx = stop.idx,
                                                    !.currentDate = stop.currentDate]]
         /\ expenses' = Append(expenses,
                               createExpense(run.patterns[stop.idx], stop.currentDate, r))
         /\ rules' = table

\* the call: getAllRecurringExpenses reads the table, then the run awaits
Invoke(r) ==
    /\ runs[r].pc \in {"idle", "done"}
    /\ runs' = [runs EXCEPT ![r] = [IdleRun EXCEPT !.pc = "loaded", !.patterns = rules,
                                                   !.prev = runs[r].now]]
    /\ UNCHANGED <<clock, tz, rules, expenses, crashes>>
    /\ UNCHANGED <<ledgerVars, appVars>>

\* after the first await: now = new Date(), the loops up to the first
\* await createExpense
StartLoop(r) ==
    /\ runs[r].pc = "loaded"
    /\ Continue(r, [runs[r] EXCEPT !.now = clock, !.prev = Null,
                                    !.repeat = (runs[r].prev = clock)],
                NextStop(runs[r].patterns, 1, clock), rules)
    /\ UNCHANGED <<clock, tz, crashes>>
    /\ UNCHANGED <<ledgerVars, appVars>>

\* after await createExpense: generated.push, UPDATE_RECURRING, the next
\* date, and the loops up to the next await createExpense
AfterCreate(r) ==
    /\ runs[r].pc = "creating"
    /\ LET run == runs[r]
           pattern == run.patterns[run.idx]
           next == getNextDate(run.currentDate, pattern.interval, pattern.intervalValue)
           pushed == [run EXCEPT !.generated =
                         Append(run.generated, toISODate(run.currentDate))]
       IN  Continue(r, pushed,
                    IF LoopCreates(pattern, next, run.now)
                    THEN [idx |-> run.idx, currentDate |-> next]
                    ELSE NextStop(run.patterns, run.idx + 1, run.now),
                    UpdateRecurring(rules, pattern, run.currentDate))
    /\ UNCHANGED <<clock, tz, crashes>>
    /\ UNCHANGED <<ledgerVars, appVars>>

\* { ...existing, ...updates } of updateRecurringExpense
MergeRule(existing, updates) ==
    [f \in DOMAIN existing |-> IF f \in DOMAIN updates THEN updates[f] ELSE existing[f]]

\* what the user changes in the form of a rule
RuleUpdateChoices == {[amount |-> 150, category |-> "food"]}

\* updateRecurringExpense(id, updates), from getRecurringById to UPDATE_RECURRING:
\* every column is written from the merged object
updateRecurringExpense(id, updates) ==
    /\ \E i \in DOMAIN rules :
          /\ rules[i].id = id
          /\ MergeRule(rules[i], updates) # rules[i]
          /\ rules' = [rules EXCEPT ![i] = MergeRule(rules[i], updates)]
    /\ UNCHANGED <<clock, tz, expenses, runs, crashes>>
    /\ UNCHANGED <<ledgerVars, appVars>>

\* the first createExpense of a run throws (db.execute of INSERT_EXPENSE): no
\* try is around it, generateRecurringExpenses rejects and the run is over
createExpenseThrows(r) ==
    /\ runs[r].pc = "loaded"
    /\ LET stop == NextStop(runs[r].patterns, 1, clock)
       IN  /\ stop.idx <= Len(runs[r].patterns)
           /\ runs' = [runs EXCEPT ![r] = [runs[r] EXCEPT !.pc = "threw", !.now = clock,
                                                          !.prev = Null, !.idx = stop.idx,
                                                          !.currentDate = stop.currentDate]]
    /\ UNCHANGED <<clock, tz, rules, expenses, crashes>>
    /\ UNCHANGED <<ledgerVars, appVars>>

\* db.execute of UPDATE_RECURRING throws after the expense was created
updateRecurringThrows(r) ==
    /\ runs[r].pc = "creating"
    /\ runs' = [runs EXCEPT ![r] = [runs[r] EXCEPT !.pc = "threw"]]
    /\ UNCHANGED <<clock, tz, rules, expenses, crashes>>
    /\ UNCHANGED <<ledgerVars, appVars>>

\* the process dies: every run is gone, the tables stay
Crash ==
    /\ crashes < MaxCrashes
    /\ \E r \in Runs : runs[r].pc \in {"loaded", "creating"}
    /\ runs' = [r \in Runs |-> IdleRun]
    /\ crashes' = crashes + 1
    /\ UNCHANGED <<clock, tz, rules, expenses>>
    /\ UNCHANGED <<ledgerVars, appVars>>

\* the instants at which the clock is read: every time of day of every
\* DayStep-th local day
ClockChoices ==
    {parseISODate(k * DayStep) + t : k \in 0..MaxSteps, t \in 0..(TicksPerDay - 1)}

Tick ==
    /\ \E t \in ClockChoices :
          /\ t > clock
          /\ clock' = t
    /\ UNCHANGED <<tz, rules, expenses, runs, crashes>>
    /\ UNCHANGED <<ledgerVars, appVars>>

----------------------------------------------------------------------------
(* The group ledger.  An amount (a JavaScript number) is a whole number of  *)
(* model units, Cent units to 0.01; a percentage is a whole number of       *)
(* units, Hundred units to 100%.  For the amounts and percentages entered   *)
(* below every quotient is exact in these units (ExactForms): the rounding  *)
(* of binary floating point (relative error 2^-53) is left out, the         *)
(* arithmetic is that of exact decimals.                                    *)

Cent == 600            \* 0.01
Hundred == 20000       \* 100 (per cent)
PercentTolerance == 2  \* 0.01 (per cent)

MaxExpenses == 2       \* group expenses added
MaxPayments == 1       \* payments recorded

MemberIds == {"A", "B", "C", "D"}
NoMember == "none"

Abs(x) == IF x < 0 THEN 0 - x ELSE x

Min(x, y) == IF x < y THEN x ELSE y

Range(seq) == {seq[i] : i \in DOMAIN seq}

\* x * p / q without an intermediate product beyond 32-bit integers
MulDiv(x, p, q) == (x \div q) * p + ((x % q) * p) \div q

\* Math.round(x * 100) / 100
RoundCents(x) == ((x + Cent \div 2) \div Cent) * Cent

\* toFixed(2) followed by parseFloat
toFixed2(x) == RoundCents(x)

RECURSIVE SumAmounts(_)
SumAmounts(seq) == IF seq = <<>> THEN 0 ELSE Head(seq).amount + SumAmounts(Tail(seq))

\* reduce over selectedMemberIds of (table[id] || 0)
RECURSIVE SumOver(_, _)
SumOver(ids, table) ==
    IF ids = <<>> THEN 0
    ELSE (IF Head(ids) \in DOMAIN table THEN table[Head(ids)] ELSE 0)
         + SumOver(Tail(ids), table)

OrZero(table, id) == IF id \in DOMAIN table THEN table[id] ELSE 0

\* AddExpenseScreen validate(): the group expense validations
validate(form) ==
    /\ form.amount > 0
    /\ form.paidByMemberId # NoMember
    /\ Len(form.selectedMemberIds) # 0
    /\ form.splitType = "percentage"
          => ~(Abs(SumOver(form.selectedMemberIds, form.percentageSplits) - Hundred)
                 > PercentTolerance)
    /\ form.splitType = "custom"
          => ~(Abs(SumOver(form.selectedMemberIds, form.customAmountSplits) - form.amount)
                 > Cent)

\* handleSubmit: the splits handed to createExpenseSplits
SplitsOf(form) ==
    LET ids == form.selectedMemberIds
    IN  [i \in DOMAIN ids |->
            [memberId |-> ids[i],
             amount |->
                CASE form.splitType = "equal" -> form.amount \div Len(ids)
                  [] form.splitType = "percentage" ->
                        MulDiv(form.amount, OrZero(form.percentageSplits, ids[i]), Hundred)
                  [] OTHER -> OrZero(form.customAmountSplits, ids[i])]]

\* createGroupExpense followed by createExpenseSplits
createGroupExpense(table, form) ==
    Append(table, [id |-> Len(table) + 1, amount |-> form.amount,
                   paidByMemberId |-> form.paidByMemberId, splits |-> SplitsOf(form)])

\* the balances object: a key is defined or not; an undefined key reads as 0
NoBalances == [m \in MemberIds |-> [def |-> FALSE, v |-> 0]]

InitBalances(ms) == [m \in MemberIds |-> [def |-> m \in Range(ms), v |-> 0]]

\* balances[m] = (balances[m] || 0) + x
AddTo(b, m, x) == [b EXCEPT ![m] = [def |-> TRUE, v |-> b[m].v + x]]

RECURSIVE SubtractSplits(_, _)
SubtractSplits(b, splits) ==
    IF splits = <<>> THEN b
    ELSE SubtractSplits(AddTo(b, Head(splits).memberId, 0 - Head(splits).amount),
                        Tail(splits))

ApplyExpense(b, e) ==
    SubtractSplits(IF e.paidByMemberId # NoMember /\ b[e.paidByMemberId].def
                   THEN AddTo(b, e.paidByMemberId, e.amount) ELSE b,
                   e.splits)

\* getGroupExpenses returns the expenses newest first
RECURSIVE ApplyExpenses(_, _)
ApplyExpenses(b, table) ==
    IF table = <<>> THEN b
    ELSE ApplyExpenses(ApplyExpense(b, table[Len(table)]), SubSeq(table, 1, Len(table) - 1))

\* the payer's balance goes up by the payment, the payee's goes down
ApplyPaymentSettling(b, p) ==
    AddTo(AddTo(b, p.fromMemberId, p.amount), p.toMemberId, 0 - p.amount)

ApplyPayment(b, p) ==
    AddTo(AddTo(b, p.fromMemberId, 0 - p.amount), p.toMemberId, p.amount)

RECURSIVE ApplyPayments(_, _)
ApplyPayments(b, table) ==
    IF table = <<>> THEN b
    ELSE ApplyPayments(ApplyPayment(b, Head(table)), Tail(table))

calculateGroupBalances(ms, exps, pays) ==
    ApplyPayments(ApplyExpenses(InitBalances(ms), exps), pays)

\* Array.prototype.sort((a, b) => b.amount - a.amount): stable, largest first
RECURSIVE InsertDesc(_, _)
InsertDesc(sorted, x) ==
    IF sorted = <<>> THEN <<x>>
    ELSE IF Head(sorted).amount >= x.amount
         THEN <<Head(sorted)>> \o InsertDesc(Tail(sorted), x)
         ELSE <<x>> \o sorted

RECURSIVE SortDesc(_)
SortDesc(seq) ==
    IF seq = <<>> THEN <<>>
    ELSE InsertDesc(SortDesc(SubSeq(seq, 1, Len(seq) - 1)), seq[Len(seq)])

RECURSIVE Creditors(_, _)
Creditors(ms, b) ==
    IF ms = <<>> THEN <<>>
    ELSE (IF b[Head(ms)].v > Cent
          THEN <<[memberId |-> Head(ms), amount |-> b[Head(ms)].v]>> ELSE <<>>)
         \o Creditors(Tail(ms), b)

\* every member with a balance that is not settled is taken as a debtor
RECURSIVE DebtorsOfAnySign(_, _)
DebtorsOfAnySign(ms, b) ==
    IF ms = <<>> THEN <<>>
    ELSE (IF Abs(b[Head(ms)].v) > Cent
          THEN <<[memberId |-> Head(ms), amount |-> Abs(b[Head(ms)].v)]>> ELSE <<>>)
         \o DebtorsOfAnySign(Tail(ms), b)

\* members.forEach: balance < -0.01
RECURSIVE Debtors(_, _)
Debtors(ms, b) ==
    IF ms = <<>> THEN <<>>
    ELSE (IF b[Head(ms)].v < 0 - Cent
          THEN <<[memberId |-> Head(ms), amount |-> Abs(b[Head(ms)].v)]>> ELSE <<>>)
         \o Debtors(Tail(ms), b)

\* the greedy while loop; the creditor is not reduced by the settlement
RECURSIVE GreedyKeepingCreditor(_, _, _, _, _)
GreedyKeepingCreditor(creditors, debtors, ci, di, suggestions) ==
    IF ~(ci <= Len(creditors) /\ di <= Len(debtors)) THEN suggestions
    ELSE IF creditors[ci].amount < Cent \/ debtors[di].amount < Cent THEN suggestions
    ELSE LET settlementAmount == Min(creditors[ci].amount, debtors[di].amount)
             d == debtors[di].amount - settlementAmount
         IN  GreedyKeepingCreditor(
                 creditors,
                 [debtors EXCEPT ![di].amount = d],
                 ci,
                 IF d < Cent THEN di + 1 ELSE di,
                 Append(suggestions,
                        [from |-> debtors[di].memberId, to |-> creditors[ci].memberId,
                         amount |-> RoundCents(settlementAmount)]))

\* the greedy while loop of getSettlementSuggestions
RECURSIVE Greedy(_, _, _, _, _)
Greedy(creditors, debtors, ci, di, suggestions) ==
    IF ~(ci <= Len(creditors) /\ di <= Len(debtors)) THEN suggestions
    ELSE IF creditors[ci].amount < Cent \/ debtors[di].amount < Cent THEN suggestions
    ELSE LET settlementAmount == Min(creditors[ci].amount, debtors[di].amount)
             c == creditors[ci].amount - settlementAmount
             d == debtors[di].amount - settlementAmount
         IN  Greedy([creditors EXCEPT ![ci].amount = c],
                    [debtors EXCEPT ![di].amount = d],
                    IF c < Cent THEN ci + 1 ELSE ci,
                    IF d < Cent THEN di + 1 ELSE di,
                    Append(suggestions,
                           [from |-> debtors[di].memberId, to |-> creditors[ci].memberId,
                            amount |-> RoundCents(settlementAmount)]))

getSettlementSuggestions(ms, exps, pays) ==
    LET b == calculateGroupBalances(ms, exps, pays)
    IN  Greedy(SortDesc(Creditors(ms, b)), SortDesc(Debtors(ms, b)), 1, 1, <<>>)

----------------------------------------------------------------------------
(* The screens *)

EmptyPayForm == [fromMemberId |-> NoMember, toMemberId |-> NoMember, amount |-> 0]

\* what the user enters in the AddExpense screen
Form(amount, paidBy, type, selected, pct, custom) ==
    [amount |-> amount, paidByMemberId |-> paidBy, splitType |-> type,
     selectedMemberIds |-> selected, percentageSplits |-> pct,
     customAmountSplits |-> custom]

None == [m \in {} |-> 0]

ExpenseForms ==
    {Form(9000 * Cent, "A", "equal", <<"A", "B", "C">>, None, None),
     Form(1000 * Cent, "A", "equal", <<"A", "B", "C">>, None, None),
     Form(1000 * Cent, "B", "equal", <<"A", "C", "D">>, None, None),
     Form(1000 * Cent, "C", "equal", <<"C">>, None, None),
     Form(100 * Cent, "A", "percentage", <<"A", "B", "C", "D">>,
          [m \in MemberIds |-> IF m = "A" THEN 560 ELSE 6480], None),
     Form(1000 * Cent, "A", "percentage", <<"A", "B">>,
          [m \in {"A", "B"} |-> IF m = "A" THEN 10000 ELSE 10001], None),
     Form(1000 * Cent, "B", "percentage", <<"A", "B">>,
          [m \in {"A", "B"} |-> IF m = "A" THEN 12000 ELSE 10000], None),
     Form(1000 * Cent, "B", "percentage", <<"B", "C">>,
          [m \in {"B", "C"} |-> IF m = "B" THEN 5000 ELSE 15000], None),
     Form(1000 * Cent, "A", "custom", <<"A", "B">>, None,
          [m \in {"A", "B"} |-> IF m = "A" THEN 500 * Cent ELSE 501 * Cent]),
     Form(1000 * Cent, "D", "custom", <<"A", "B">>, None,
          [m \in {"A", "B"} |-> IF m = "A" THEN 500 * Cent ELSE 600 * Cent]),
     Form(1000 * Cent, "D", "custom", <<"B">>, None, [m \in {"B"} |-> 1000 * Cent]),
     Form(1000 * Cent, "B", "custom", <<"A", "C">>, None,
          [m \in {"A", "C"} |-> IF m = "A" THEN 250 * Cent ELSE 750 * Cent])}

\* the model's units hold every share of every form exactly
ExactForms ==
    \A form \in ExpenseForms :
        /\ form.amount % Len(form.selectedMemberIds) = 0
        /\ \A m \in DOMAIN form.percentageSplits :
              ((form.amount % Hundred) * form.percentageSplits[m]) % Hundred = 0

\* AddExpenseScreen handleSubmit for a group expense
handleSubmit(form) ==
    /\ Len(groupExpenses) < MaxExpenses
    /\ IF validate(form)
       THEN /\ groupExpenses' = createGroupExpense(groupExpenses, form)
            /\ lastSubmit' = "saved"
       ELSE /\ groupExpenses' = groupExpenses
            /\ lastSubmit' = "invalid"
    /\ UNCHANGED <<members, payments, balances, settlements, payForm>>
    /\ UNCHANGED <<plannerVars, appVars>>

\* SettleUpScreen loadGroupData
loadGroupData ==
    /\ balances' = calculateGroupBalances(members, groupExpenses, payments)
    /\ settlements' = getSettlementSuggestions(members, groupExpenses, payments)
    /\ UNCHANGED <<members, groupExpenses, payments, payForm, lastSubmit>>
    /\ UNCHANGED <<plannerVars, appVars>>

\* the user picks payer and payee and types an amount
PayerChoices == {NoMember, "B"}
PayeeChoices == {"A", "B"}
PaymentAmountChoices == {0, 500 * Cent}

\* the form is filled in from empty: typing over a filled form gives the
\* states that filling the empty one gives
EnterPayment(from, to, amount) ==
    /\ payForm = EmptyPayForm
    /\ payForm' = [fromMemberId |-> from, toMemberId |-> to, amount |-> amount]
    /\ payForm' # payForm
    /\ UNCHANGED <<members, groupExpenses, payments, balances, settlements, lastSubmit>>
    /\ UNCHANGED <<plannerVars, appVars>>

handleUseSuggestion(i) ==
    /\ i \in DOMAIN settlements
    /\ payForm' = [fromMemberId |-> settlements[i].from, toMemberId |-> settlements[i].to,
                   amount |-> toFixed2(settlements[i].amount)]
    /\ UNCHANGED <<members, groupExpenses, payments, balances, settlements, lastSubmit>>
    /\ UNCHANGED <<plannerVars, appVars>>

\* recordPayment: INSERT_PAYMENT
recordPayment(table, from, to, amount) ==
    Append(table, [fromMemberId |-> from, toMemberId |-> to, amount |-> amount])

\* SettleUpScreen handleRecordPayment: the payment, the form reset, the reload
handleRecordPayment ==
    /\ Len(payments) < MaxPayments
    /\ payForm.fromMemberId # NoMember /\ payForm.toMemberId # NoMember
    /\ payForm.amount > 0
    /\ payForm.fromMemberId # payForm.toMemberId
    /\ payments' = recordPayment(payments, payForm.fromMemberId, payForm.toMemberId,
                                 payForm.amount)
    /\ payForm' = EmptyPayForm
    /\ balances' = calculateGroupBalances(members, groupExpenses, payments')
    /\ settlements' = getSettlementSuggestions(members, groupExpenses, payments')
    /\ UNCHANGED <<members, groupExpenses, lastSubmit>>
    /\ UNCHANGED <<plannerVars, appVars>>

\* removeMemberFromGroup: 'Member not found' when the document is not there,
\* else the member document is deleted
removeMemberFromGroup(memberId) ==
    /\ memberId \in Range(members)
    /\ members' = SelectSeq(members, LAMBDA m : m # memberId)
    /\ UNCHANGED <<groupExpenses, payments, balances, settlements, payForm, lastSubmit>>
    /\ UNCHANGED <<plannerVars, appVars>>

----------------------------------------------------------------------------
(* The split operations.  A row of expense_splits (and a document of the    *)
(* splits collection) is kept without its generated id and its createdAt.   *)

MaxSplitDocs == 4      \* documents in the splits collections

SplitExpenseIds == {1, 2}
SplitTotal == 1000 * Cent    \* the amount of each expense that is split

NoSplit == [op |-> "none", expenseId |-> 0, rows |-> <<>>, valid |-> TRUE,
            result |-> "none"]

\* DELETE_SPLITS_BY_EXPENSE
DeleteSplitsByExpense(table, expenseId) ==
    SelectSeq(table, LAMBDA row : row.expenseId # expenseId)

SplitsByExpense(table, expenseId) ==
    SelectSeq(table, LAMBDA row : row.expenseId = expenseId)

\* the rows that the INSERT_SPLIT loop of splitExpenseEqually writes
EqualRows(expenseId, memberIds, totalAmount) ==
    [i \in DOMAIN memberIds |->
        [expenseId |-> expenseId, memberId |-> memberIds[i],
         amount |-> totalAmount \div Len(memberIds), percentage |-> Null]]

\* ... of splitExpenseByPercentage
PercentageRows(expenseId, input, totalAmount) ==
    [i \in DOMAIN input |->
        [expenseId |-> expenseId, memberId |-> input[i].memberId,
         amount |-> MulDiv(totalAmount, input[i].percentage, Hundred),
         percentage |-> input[i].percentage]]

\* ... of splitExpenseByAmount
AmountRows(expenseId, input) ==
    [i \in DOMAIN input |->
        [expenseId |-> expenseId, memberId |-> input[i].memberId,
         amount |-> input[i].amount, percentage |-> Null]]

\* the documents that createExpenseSplits sets: percentage || null
SplitDocsOf(groupId, expenseId, input) ==
    [i \in DOMAIN input |->
        [groupId |-> groupId, expenseId |-> expenseId, memberId |-> input[i].memberId,
         amount |-> input[i].amount,
         percentage |-> IF input[i].percentage = 0 THEN Null ELSE input[i].percentage]]

RECURSIVE SumPercentages(_)
SumPercentages(seq) ==
    IF seq = <<>> THEN 0
    ELSE (IF Head(seq).percentage = Null THEN 0 ELSE Head(seq).percentage)
         + SumPercentages(Tail(seq))

\* percentages that sum to 100 within 0.01
PercentagesValid(input) == Abs(SumPercentages(input) - Hundred) <= PercentTolerance

\* amounts that sum to the amount of the expense within 0.01
AmountsValid(input, totalAmount) == Abs(SumAmounts(input) - totalAmount) <= Cent

splitExpenseEqually(expenseId, memberIds, totalAmount) ==
    LET rows == EqualRows(expenseId, memberIds, totalAmount)
    IN  /\ expenseSplits' = DeleteSplitsByExpense(expenseSplits, expenseId) \o rows
        /\ lastSplit' = [op |-> "splitExpenseEqually", expenseId |-> expenseId,
                         rows |-> rows, valid |-> TRUE, result |-> "ok"]
        /\ UNCHANGED splitDocs

splitExpenseByPercentage(expenseId, input, totalAmount) ==
    LET rows == PercentageRows(expenseId, input, totalAmount)
    IN  /\ expenseSplits' = DeleteSplitsByExpense(expenseSplits, expenseId) \o rows
        /\ lastSplit' = [op |-> "splitExpenseByPercentage", expenseId |-> expenseId,
                         rows |-> rows, valid |-> PercentagesValid(input),
                         result |-> "ok"]
        /\ UNCHANGED splitDocs

splitExpenseByAmount(expenseId, input) ==
    LET rows == AmountRows(expenseId, input)
    IN  /\ expenseSplits' = DeleteSplitsByExpense(expenseSplits, expenseId) \o rows
        /\ lastSplit' = [op |-> "splitExpenseByAmount", expenseId |-> expenseId,
                         rows |-> rows, valid |-> AmountsValid(input, SplitTotal),
                         result |-> "ok"]
        /\ UNCHANGED splitDocs

\* groupExpenseService.createExpenseSplits: a batch of set() on new documents
createExpenseSplits(groupId, expenseId, input) ==
    LET docs == SplitDocsOf(groupId, expenseId, input)
    IN  /\ Len(splitDocs) + Len(docs) <= MaxSplitDocs
        /\ splitDocs' = splitDocs \o docs
        /\ lastSplit' = [op |-> "createExpenseSplits", expenseId |-> expenseId,
                         rows |-> docs, valid |-> TRUE, result |-> "ok"]
        /\ UNCHANGED expenseSplits

\* what the callers pass
MemberListChoices == {<<"A", "B">>, <<"A", "B", "C", "D">>}

PercentageChoices ==
    {<<[memberId |-> "A", percentage |-> 10000], [memberId |-> "B", percentage |-> 10000]>>,
     <<[memberId |-> "A", percentage |-> 12000], [memberId |-> "B", percentage |-> 10000]>>}

AmountChoices ==
    {<<[memberId |-> "A", amount |-> 250 * Cent], [memberId |-> "C", amount |-> 750 * Cent]>>,
     <<[memberId |-> "A", amount |-> 500 * Cent], [memberId |-> "B", amount |-> 600 * Cent]>>}

SplitDocChoices ==
    {<<[memberId |-> "A", amount |-> 500 * Cent, percentage |-> 0],
       [memberId |-> "B", amount |-> 500 * Cent, percentage |-> 0]>>,
     <<[memberId |-> "B", amount |-> 250 * Cent, percentage |-> 5000],
       [memberId |-> "C", amount |-> 750 * Cent, percentage |-> 15000]>>}

----------------------------------------------------------------------------
(* The expense store and the undo log.  A row of table expenses is kept     *)
(* without created_at and updated_at; the rows are in insertion order, the  *)
(* order of created_at.  A text that is '', null or undefined is NoText:    *)
(* the code tells them apart nowhere (description || null, notes ? ... ).   *)

MaxIds == 3            \* identifiers handed out to expenses
MaxUndoEntries == 3    \* rows of undo_history
UndoRetentionDays == 7

NoText == ""
NoGroup == "none"
NoCipher == <<>>

\* lastOp: kind of the operation, the expense it was about, table expenses
\* before and after it; for an undo, id, pre and post are those of the
\* operation before it (of)
NoOp == [kind |-> "none", id |-> 0, pre |-> <<>>, post |-> <<>>, of |-> "none",
         result |-> "none"]

\* crypto service encrypt / decrypt once the key is there; the nonce is left out
Seal(plaintext) == <<"sealed", plaintext>>
Open(ciphertext) == ciphertext[2]

\* INSERT_EXPENSE / UPDATE_EXPENSE: the row written for an expense object;
\* groupId and paidByMemberId are always null
RowOf(obj, id) ==
    [id |-> id, amount |-> obj.amount, category |-> obj.category,
     description |-> obj.description,
     notesEncrypted |-> IF obj.notes # NoText THEN Seal(obj.notes) ELSE NoCipher,
     date |-> obj.date, groupId |-> NoGroup, paidByMemberId |-> NoMember]

\* getExpenseById: the expense object read from a row
ObjectOf(row) ==
    [id |-> row.id, amount |-> row.amount, category |-> row.category,
     description |-> row.description,
     notes |-> IF row.notesEncrypted # NoCipher THEN Open(row.notesEncrypted) ELSE NoText,
     date |-> row.date, groupId |-> row.groupId, paidByMemberId |-> row.paidByMemberId]

\* what createExpense returns: { ...expense, id }
Created(input, id) == [input EXCEPT !.id = id]

HasId(table, id) == \E i \in DOMAIN table : table[i].id = id

ById(table, id) == table[CHOOSE i \in DOMAIN table : table[i].id = id]

InsertExpense(table, obj, id) == Append(table, RowOf(obj, id))

DeleteExpenseRow(table, id) == SelectSeq(table, LAMBDA row : row.id # id)

\* { ...existing, ...updates }
Merge(existing, updates) ==
    [f \in DOMAIN existing |-> IF f \in DOMAIN updates THEN updates[f] ELSE existing[f]]

\* ORDER BY date DESC, created_at DESC
RECURSIVE InsertByDate(_, _)
InsertByDate(sorted, x) ==
    IF sorted = <<>> THEN <<x>>
    ELSE IF Head(sorted).date >= x.date
         THEN <<Head(sorted)>> \o InsertByDate(Tail(sorted), x)
         ELSE <<x>> \o sorted

RECURSIVE NewestFirst(_)
NewestFirst(table) ==
    IF table = <<>> THEN <<>>
    ELSE InsertByDate(NewestFirst(Tail(table)), Head(table))

\* The operations below take and give the state they work on:
\* db (table expenses), store (the list in memory), undo (table undo_history),
\* nextId and key (the encryption key is held)
StoreState ==
    [db |-> expenses, store |-> storeExpenses, undo |-> undoHistory, nextId |-> nextId,
     key |-> encryptionKey]

\* encrypt / decrypt: if (!encryptionKey) await initEncryptionKey(); the call
\* goes through when the key is held or the keychain gives it
KeyUsable(s) == s.key \/ keychainOk

\* expenseService.createExpense
svcCreateExpense(s, input) ==
    IF input.notes # NoText /\ ~KeyUsable(s)
    THEN [threw |-> TRUE, st |-> s, ret |-> input]
    ELSE [threw |-> FALSE,
          st |-> [s EXCEPT !.db = InsertExpense(s.db, input, s.nextId),
                           !.nextId = s.nextId + 1,
                           !.key = s.key \/ input.notes # NoText],
          ret |-> Created(input, s.nextId)]

\* expenseService.updateExpense: 'Expense not found', decrypt of the stored
\* note in getExpenseById, encrypt of the new note
svcUpdateExpense(s, id, updates) ==
    IF ~HasId(s.db, id) THEN [threw |-> TRUE, st |-> s, ret |-> updates]
    ELSE LET row == ById(s.db, id)
             updated == Merge(ObjectOf(row), updates)
             usesKey == row.notesEncrypted # NoCipher \/ updated.notes # NoText
         IN  IF usesKey /\ ~KeyUsable(s) THEN [threw |-> TRUE, st |-> s, ret |-> updates]
             ELSE [threw |-> FALSE,
                   st |-> [s EXCEPT !.db = [i \in DOMAIN s.db |->
                                               IF s.db[i].id = id THEN RowOf(updated, id)
                                               ELSE s.db[i]],
                                    !.key = s.key \/ usesKey],
                   ret |-> updated]

\* expenseService.deleteExpense
svcDeleteExpense(s, id) == [s EXCEPT !.db = DeleteExpenseRow(s.db, id)]

\* getAllExpenses: group_id IS NULL, newest first; it throws when a note
\* cannot be decrypted
getAllExpenses(s) ==
    LET rows == NewestFirst(SelectSeq(s.db, LAMBDA row : row.groupId = NoGroup))
        usesKey == \E i \in DOMAIN rows : rows[i].notesEncrypted # NoCipher
    IN  IF usesKey /\ ~KeyUsable(s) THEN [threw |-> TRUE, st |-> s, ret |-> <<>>]
        ELSE [threw |-> FALSE, st |-> [s EXCEPT !.key = s.key \/ usesKey],
              ret |-> [i \in DOMAIN rows |-> ObjectOf(rows[i])]]

\* useExpenseStore.fetchExpenses
fetchExpenses(s) ==
    LET got == getAllExpenses(s)
    IN  IF got.threw THEN s ELSE [got.st EXCEPT !.store = got.ret]

\* saveUndoAction: INSERT_UNDO_ACTION, then CLEAR_OLD_UNDO_HISTORY
saveUndoAction(table, type, entityType, payload, now) ==
    SelectSeq(Append(table, [type |-> type, entityType |-> entityType,
                             payload |-> payload, timestamp |-> now]),
              LAMBDA entry : ~(entry.timestamp < addDays(now, 0 - UndoRetentionDays)))

\* the updates undoExpenseAction passes to updateExpense for an edit entry
UndoEditUpdatesWithoutNotes(expense) ==
    [amount |-> expense.amount, category |-> expense.category,
     description |-> expense.description, date |-> expense.date,
     groupId |-> expense.groupId]

UndoEditUpdates(expense) ==
    [amount |-> expense.amount, category |-> expense.category,
     description |-> expense.description, notes |-> expense.notes,
     date |-> expense.date, groupId |-> expense.groupId]

\* the expense undoExpenseAction passes to createExpense for a delete entry
UndoDeleteInput(expense) ==
    [id |-> 0, amount |-> expense.amount, category |-> expense.category,
     description |-> expense.description, notes |-> expense.notes,
     date |-> expense.date, groupId |-> expense.groupId,
     paidByMemberId |-> NoMember]

\* useExpenseStore.addExpense: on a throw nothing is kept and it rethrows
addExpense(s, input) ==
    LET c == svcCreateExpense(s, input)
    IN  IF c.threw THEN [threw |-> TRUE, st |-> s, ret |-> input]
        ELSE [threw |-> FALSE,
              st |-> [c.st EXCEPT !.store = <<c.ret>> \o s.store,
                                  !.undo = saveUndoAction(s.undo, "add", "expense", c.ret,
                                                          clock)],
              ret |-> c.ret]

\* useExpenseStore.updateExpense: the undo entry is saved first, from the
\* object in the list; a throw of the service is caught
updateExpense(s, id, updates) ==
    LET saved == IF HasId(s.store, id)
                 THEN [s EXCEPT !.undo = saveUndoAction(s.undo, "edit", "expense",
                                                        ById(s.store, id), clock)]
                 ELSE s
        u == svcUpdateExpense(saved, id, updates)
    IN  IF u.threw THEN [threw |-> TRUE, st |-> saved]
        ELSE [threw |-> FALSE,
              st |-> [u.st EXCEPT !.store = [i \in DOMAIN s.store |->
                                                IF s.store[i].id = id THEN u.ret
                                                ELSE s.store[i]]]]

\* useExpenseStore.deleteExpense
deleteExpense(s, id) ==
    LET saved == IF HasId(s.store, id)
                 THEN [s EXCEPT !.undo = saveUndoAction(s.undo, "delete", "expense",
                                                        ById(s.store, id), clock)]
                 ELSE s
    IN  [svcDeleteExpense(saved, id) EXCEPT
            !.store = SelectSeq(s.store, LAMBDA e : e.id # id)]

\* undoLastAction up to the removal of the entry: getUndoHistory(1), the
\* switch on the entity type, undoExpenseAction
UndoOutcome(s) ==
    IF s.undo = <<>> THEN [result |-> "empty", st |-> s]
    ELSE LET action == s.undo[Len(s.undo)]
             expense == action.payload
         IN  IF action.entityType # "expense" THEN [result |-> "unhandled", st |-> s]
             ELSE CASE action.type = "delete" ->
                         LET c == svcCreateExpense(s, UndoDeleteInput(expense))
                         IN  [result |-> IF c.threw THEN "threw" ELSE "ok", st |-> c.st]
                    [] action.type = "edit" ->
                         LET u == svcUpdateExpense(s, expense.id, UndoEditUpdates(expense))
                         IN  [result |-> IF u.threw THEN "threw" ELSE "ok", st |-> u.st]
                    [] OTHER ->
                         [result |-> "ok", st |-> svcDeleteExpense(s, expense.id)]

\* undoLastAction after its first await, for the entry the call read: the
\* state s is the one at the time the call goes on
UndoOutcomeOf(s, action) == UndoOutcome([s EXCEPT !.undo = <<action>>])

\* DELETE_UNDO_ACTION ... WHERE id = action.id: the entry the call read, when
\* it is still in the table
DeleteUndoAction(table, call) ==
    IF call.pos <= Len(table) /\ table[call.pos] = call.action
    THEN SubSeq(table, 1, call.pos - 1) \o SubSeq(table, call.pos + 1, Len(table))
    ELSE table

\* the entry is removed whenever one was read
ConsumeEntryAlways(result, table) ==
    IF result = "empty" THEN table ELSE SubSeq(table, 1, Len(table) - 1)

\* DELETE_UNDO_ACTION is reached only when nothing threw and nothing returned
ConsumeEntry(result, table) ==
    IF result = "ok" THEN SubSeq(table, 1, Len(table) - 1) ELSE table

\* undo service undoLastAction
svcUndoLastAction(s) ==
    LET o == UndoOutcome(s)
    IN  [result |-> o.result,
         st |-> [o.st EXCEPT !.undo = ConsumeEntry(o.result, o.st.undo)]]

\* useExpenseStore.undoLastAction: the list is refreshed after a success
undoLastAction(s) ==
    LET r == svcUndoLastAction(s)
    IN  [result |-> r.result,
         st |-> IF r.result = "ok" THEN fetchExpenses(r.st) ELSE r.st]

\* the variables take the state an operation gives
SetStore(s) ==
    /\ expenses' = s.db
    /\ storeExpenses' = s.store
    /\ undoHistory' = s.undo
    /\ nextId' = s.nextId
    /\ encryptionKey' = s.key

Done(kind, id) ==
    [kind |-> kind, id |-> id, pre |-> expenses, post |-> expenses', of |-> "none",
     result |-> "ok"]

\* what the user enters for a new expense
NewExpense(amount, category, description, notes, date, groupId, paidBy) ==
    [id |-> 0, amount |-> amount, category |-> category, description |-> description,
     notes |-> notes, date |-> date, groupId |-> groupId, paidByMemberId |-> paidBy]

NewExpenseChoices ==
    {NewExpense(100, "Food", "lunch", NoText, 1, NoGroup, NoMember),
     NewExpense(250, "Food", NoText, "secret", 0, NoGroup, NoMember),
     NewExpense(300, "Travel", "trip", NoText, 1, "g1", "A")}

UpdateChoices == {[amount |-> 999], [notes |-> "changed", description |-> NoText]}

\* AddExpenseScreen handleSubmit for a personal expense: addExpense
AddExpenseSubmit(input) ==
    /\ nextId <= MaxIds /\ Len(undoHistory) < MaxUndoEntries
    /\ LET a == addExpense(StoreState, input)
       IN  /\ SetStore(a.st)
           /\ lastOp' = IF a.threw THEN [NoOp EXCEPT !.kind = "addFailed"]
                        ELSE Done("add", a.ret.id)
    /\ UNCHANGED <<clock, tz, rules, runs, crashes, keychainOk>>
    /\ UNCHANGED <<ledgerVars, splitVars, lifeVars, groupVars, callVars>>

\* the later AddExpenseScreen: expenseService.createExpense, then addExpense
handleSubmitPersonal(input) ==
    /\ input.notes = NoText /\ input.groupId = NoGroup
    /\ nextId + 1 <= MaxIds /\ Len(undoHistory) < MaxUndoEntries
    /\ LET c == svcCreateExpense(StoreState, input)
           a == addExpense(c.st, input)
       IN  /\ SetStore(a.st)
           /\ lastOp' = Done("add", a.ret.id)
    /\ UNCHANGED <<clock, tz, rules, runs, crashes, keychainOk>>
    /\ UNCHANGED <<ledgerVars, splitVars, lifeVars, groupVars, callVars>>

\* the user edits an expense of the list: useExpenseStore.updateExpense
EditExpense(id, updates) ==
    /\ HasId(storeExpenses, id)
    /\ Len(undoHistory) < MaxUndoEntries
    /\ LET u == updateExpense(StoreState, id, updates)
       IN  /\ SetStore(u.st)
           /\ lastOp' = IF u.threw THEN [NoOp EXCEPT !.kind = "editFailed"]
                        ELSE Done("edit", id)
    /\ UNCHANGED <<clock, tz, rules, runs, crashes, keychainOk>>
    /\ UNCHANGED <<ledgerVars, splitVars, lifeVars, groupVars, callVars>>

\* ExpensesScreen handleDelete: deleteExpense, then fetchExpenses
handleDelete(id) ==
    /\ HasId(storeExpenses, id)
    /\ Len(undoHistory) < MaxUndoEntries
    /\ SetStore(fetchExpenses(deleteExpense(StoreState, id)))
    /\ lastOp' = Done("delete", id)
    /\ UNCHANGED <<clock, tz, rules, runs, crashes, keychainOk>>
    /\ UNCHANGED <<ledgerVars, splitVars, lifeVars, groupVars, callVars>>

\* UndoButton handleUndo: useExpenseStore.undoLastAction
handleUndo ==
    /\ nextId <= MaxIds
    /\ LET r == undoLastAction(StoreState)
       IN  /\ SetStore(r.st)
           /\ lastOp' = [kind |-> "undo", id |-> lastOp.id, pre |-> lastOp.pre,
                         post |-> lastOp.post, of |-> lastOp.kind, result |-> r.result]
    /\ UNCHANGED <<clock, tz, rules, runs, crashes, keychainOk>>
    /\ UNCHANGED <<ledgerVars, splitVars, lifeVars, groupVars, callVars>>

\* two taps on UNDO: each call of undoLastAction is idle or holds the entry it
\* read with getUndoHistory(1), and the place of that entry in the table
Calls == {1, 2}
IdleCall == [pc |-> "idle", action |-> <<>>, pos |-> 0]
NoCalls == [c \in Calls |-> IdleCall]

\* ExpensesScreen UNDO onPress up to the first await of undoLastAction:
\* getUndoHistory(1)
undoRead(c) ==
    /\ undoCalls[c].pc = "idle"
    /\ undoHistory # <<>>
    /\ undoHistory[Len(undoHistory)].entityType = "expense"
    /\ undoCalls' = [undoCalls EXCEPT ![c] = [pc |-> "read",
                                              action |-> undoHistory[Len(undoHistory)],
                                              pos |-> Len(undoHistory)]]
    /\ UNCHANGED <<plannerVars, ledgerVars, splitVars, undoVars, boxVars, lifeVars,
                   groupVars>>

\* the call goes on: undoExpenseAction for the entry it read, DELETE_UNDO_ACTION
\* by the id of that entry, and after a success fetchExpenses
undoApply(c) ==
    /\ undoCalls[c].pc = "read"
    /\ nextId <= MaxIds
    /\ LET o == UndoOutcomeOf(StoreState, undoCalls[c].action)
           after == [o.st EXCEPT !.undo = IF o.result = "ok"
                                          THEN DeleteUndoAction(undoHistory, undoCalls[c])
                                          ELSE undoHistory]
       IN  /\ SetStore(IF o.result = "ok" THEN fetchExpenses(after) ELSE after)
           /\ lastOp' = [kind |-> "undo", id |-> lastOp.id, pre |-> lastOp.pre,
                         post |-> lastOp.post, of |-> lastOp.kind, result |-> o.result]
    /\ undoCalls' = [undoCalls EXCEPT ![c] = IdleCall]
    /\ UNCHANGED <<clock, tz, rules, runs, crashes, keychainOk>>
    /\ UNCHANGED <<ledgerVars, splitVars, lifeVars, groupVars>>

\* a screen with the list is shown: fetchExpenses
ExpensesScreenMount ==
    /\ SetStore(fetchExpenses(StoreState))
    /\ UNCHANGED <<clock, tz, rules, runs, crashes, keychainOk, lastOp>>
    /\ UNCHANGED <<ledgerVars, splitVars, lifeVars, groupVars, callVars>>

\* saveUndoAction for an entity that is not an expense
SaveOtherUndo ==
    /\ Len(undoHistory) < MaxUndoEntries
    /\ undoHistory' = saveUndoAction(undoHistory, "delete", "group", [id |-> "g1"], clock)
    /\ lastOp' = [NoOp EXCEPT !.kind = "other"]
    /\ UNCHANGED <<clock, tz, rules, expenses, runs, crashes, storeExpenses, nextId>>
    /\ UNCHANGED <<ledgerVars, splitVars, boxVars, lifeVars, groupVars, callVars>>

\* the keychain becomes unreadable (device locked) or readable again
KeychainChange ==
    /\ keychainOk' = ~keychainOk
    /\ UNCHANGED <<plannerVars, ledgerVars, splitVars, undoVars, lifeVars, groupVars,
                   callVars, encryptionKey>>

\* crypto service lockEncryptionKey: encryptionKey = null
lockEncryptionKey == encryptionKey' = FALSE

----------------------------------------------------------------------------
(* The life of the app: launch, background, resume, the lock screen and the *)
(* calls of the crypto service.  Date.now() is counted in minutes.          *)

MaxMinutes == 7             \* the span of the process that is looked at
TimeoutChoices == {1, 5}    \* two of the options of the settings screen
NoTime == 0                 \* getLastActiveTime() when it was never set

\* AppStateStatus
AppStates == {"active", "inactive", "background"}

\* appState.current.match(/inactive|background/)
InBackground(state) == state \in {"inactive", "background"}

\* seen: authenticate() returned success since the lock screen came up;
\* lockEncryptionKey was called and no authenticate() has succeeded since;
\* the outcome of the last encrypt or decrypt since then; the app state went
\* to active and generateRecurringExpenses was not invoked since
NothingSeen ==
    [authenticated |-> FALSE, keyLocked |-> FALSE, lastCrypt |-> "none",
     resumePending |-> FALSE]

isInitialized == appContent.init = "done"

\* biometric service shouldLockApp
shouldLockApp ==
    IF ~settings.biometricEnabled THEN FALSE
    ELSE IF settings.lastActiveTime = NoTime THEN TRUE
    ELSE wallMinutes - settings.lastActiveTime >= settings.autoLockTimeout

\* biometric service lockApp: isLocked = true; lockEncryptionKey()
lockApp ==
    /\ isLocked' = TRUE
    /\ lockEncryptionKey

\* setIsLocked(true): the lock screen comes up if it was not there
ShownLocked(s) == IF appContent.isLocked THEN s ELSE [s EXCEPT !.authenticated = FALSE]

\* lockEncryptionKey clears a key that was held
KeyLocked(s) ==
    IF encryptionKey THEN [s EXCEPT !.keyLocked = TRUE, !.lastCrypt = "none"] ELSE s

\* initializeApp up to the call of generateRecurringExpenses; a throw of
\* initEncryptionKey goes to the catch: setIsInitialized(true), no lock check
initializeApp ==
    /\ appContent.init = "start"
    /\ IF keychainOk
       THEN /\ encryptionKey' = TRUE
            /\ appContent' = [appContent EXCEPT !.init = "generated"]
            /\ seen' = [seen EXCEPT !.resumePending = FALSE]
       ELSE /\ appContent' = [appContent EXCEPT !.init = "done"]
            /\ UNCHANGED <<encryptionKey, seen>>
    /\ UNCHANGED <<settings, isLocked, wallMinutes, sensorAvailable, keychainOk>>
    /\ UNCHANGED <<plannerVars, ledgerVars, splitVars, undoVars, groupVars, callVars>>

\* initializeApp after generateRecurringExpenses: the lock check
initializeAppLockCheck ==
    /\ appContent.init = "generated"
    /\ IF shouldLockApp
       THEN /\ lockApp
            /\ appContent' = [appContent EXCEPT !.init = "done", !.isLocked = TRUE]
            /\ seen' = KeyLocked(ShownLocked(seen))
            /\ UNCHANGED settings
       ELSE /\ settings' = [settings EXCEPT !.lastActiveTime = wallMinutes]
            /\ appContent' = [appContent EXCEPT !.init = "done"]
            /\ UNCHANGED <<isLocked, encryptionKey, seen>>
    /\ UNCHANGED <<wallMinutes, sensorAvailable, keychainOk>>
    /\ UNCHANGED <<plannerVars, ledgerVars, splitVars, undoVars, groupVars, callVars>>

\* handleAppResume
handleAppResume(nextAppState) ==
    /\ IF shouldLockApp \/ isLocked
       THEN /\ appContent' = [appContent EXCEPT !.appState = nextAppState,
                                                !.isLocked = TRUE]
            /\ seen' = [ShownLocked(seen) EXCEPT !.resumePending = TRUE]
            /\ UNCHANGED settings
       ELSE /\ settings' = [settings EXCEPT !.lastActiveTime = wallMinutes]
            /\ appContent' = [appContent EXCEPT !.appState = nextAppState]
            /\ seen' = [seen EXCEPT !.resumePending = TRUE]
    /\ UNCHANGED <<isLocked, encryptionKey>>

\* handleAppBackground
handleAppBackground(nextAppState) ==
    /\ lockApp
    /\ appContent' = [appContent EXCEPT !.appState = nextAppState, !.isLocked = TRUE]
    /\ seen' = KeyLocked(ShownLocked(seen))
    /\ UNCHANGED settings

\* handleAppStateChange, the listener of AppState 'change'
handleAppStateChange(nextAppState) ==
    /\ nextAppState # appContent.appState
    /\ IF InBackground(appContent.appState) /\ nextAppState = "active"
       THEN handleAppResume(nextAppState)
       ELSE IF appContent.appState = "active" /\ InBackground(nextAppState)
       THEN handleAppBackground(nextAppState)
       ELSE /\ appContent' = [appContent EXCEPT !.appState = nextAppState]
            /\ UNCHANGED <<settings, isLocked, encryptionKey, seen>>
    /\ UNCHANGED <<wallMinutes, sensorAvailable, keychainOk>>
    /\ UNCHANGED <<plannerVars, ledgerVars, splitVars, undoVars, groupVars, callVars>>

\* The lock screen works on: the service's isLocked, AppContent's isLocked,
\* lastActiveTime, and whether authenticate() has returned success
LockState ==
    [isLocked |-> isLocked, uiLocked |-> appContent.isLocked,
     lastActiveTime |-> settings.lastActiveTime, reauth |-> FALSE]

\* biometric service authenticate, the prompt answering success or not
authenticate(s, success) ==
    IF success
    THEN [s EXCEPT !.isLocked = FALSE, !.lastActiveTime = wallMinutes, !.reauth = TRUE]
    ELSE s

\* biometric service unlockApp; again is the answer of the prompt it may show
unlockApp(s, again) ==
    IF ~s.isLocked THEN [ok |-> TRUE, st |-> s]
    ELSE IF ~settings.biometricEnabled \/ ~sensorAvailable
    THEN [ok |-> TRUE, st |-> [s EXCEPT !.isLocked = FALSE, !.lastActiveTime = wallMinutes]]
    ELSE [ok |-> again,
          st |-> [authenticate(s, again) EXCEPT
                     !.lastActiveTime = IF again THEN wallMinutes ELSE s.lastActiveTime]]

\* AppContent handleUnlock
handleUnlock(s, again) ==
    LET u == unlockApp(s, again)
    IN  IF u.ok THEN [u.st EXCEPT !.uiLocked = FALSE, !.lastActiveTime = wallMinutes]
        ELSE u.st

\* onUnlock is called whatever the prompt answered
OnUnlockCalledAlways(success) == TRUE

\* LockScreen handleAuthenticate: if (success) onUnlock()
OnUnlockCalled(success) == success

\* LockScreen handleAuthenticate up to the prompt; with no sensor it shows
\* an error and changes nothing
handleAuthenticate ==
    /\ isInitialized
    /\ appContent.isLocked
    /\ appContent.appState = "active"
    /\ ~appContent.isAuthenticating
    /\ sensorAvailable
    /\ appContent' = [appContent EXCEPT !.isAuthenticating = TRUE]
    /\ UNCHANGED <<settings, isLocked, wallMinutes, sensorAvailable, seen, boxVars>>
    /\ UNCHANGED <<plannerVars, ledgerVars, splitVars, undoVars, groupVars, callVars>>

\* LockScreen handleAuthenticate from the answer of the prompt on
promptAnswered(success, again) ==
    /\ appContent.isAuthenticating
    /\ LET a == authenticate(LockState, success)
           r == IF OnUnlockCalled(success) THEN handleUnlock(a, again) ELSE a
       IN  /\ isLocked' = r.isLocked
           /\ appContent' = [appContent EXCEPT !.isLocked = r.uiLocked,
                                               !.isAuthenticating = FALSE]
           /\ settings' = [settings EXCEPT !.lastActiveTime = r.lastActiveTime]
           /\ seen' = [seen EXCEPT
                          !.authenticated = seen.authenticated \/ r.reauth,
                          !.keyLocked = seen.keyLocked /\ ~r.reauth,
                          !.lastCrypt = IF r.reauth THEN "none" ELSE seen.lastCrypt]
    /\ UNCHANGED <<wallMinutes, sensorAvailable, boxVars>>
    /\ UNCHANGED <<plannerVars, ledgerVars, splitVars, undoVars, groupVars, callVars>>

\* a minute passes
MinutePasses ==
    /\ wallMinutes < MaxMinutes
    /\ wallMinutes' = wallMinutes + 1
    /\ UNCHANGED <<settings, appContent, isLocked, sensorAvailable, seen, boxVars>>
    /\ UNCHANGED <<plannerVars, ledgerVars, splitVars, undoVars, groupVars, callVars>>

\* crypto service encrypt: if (!encryptionKey) await initEncryptionKey()
encrypt ==
    /\ encryptionKey' = KeyUsable([key |-> encryptionKey])
    /\ seen' = [seen EXCEPT !.lastCrypt = IF encryptionKey' THEN "encrypted" ELSE "threw"]
    /\ UNCHANGED <<settings, appContent, isLocked, wallMinutes, sensorAvailable, keychainOk>>
    /\ UNCHANGED <<plannerVars, ledgerVars, splitVars, undoVars, groupVars, callVars>>

\* crypto service decrypt: if (!encryptionKey) await initEncryptionKey()
decrypt ==
    /\ encryptionKey' = KeyUsable([key |-> encryptionKey])
    /\ seen' = [seen EXCEPT !.lastCrypt = IF encryptionKey' THEN "decrypted" ELSE "threw"]
    /\ UNCHANGED <<settings, appContent, isLocked, wallMinutes, sensorAvailable, keychainOk>>
    /\ UNCHANGED <<plannerVars, ledgerVars, splitVars, undoVars, groupVars, callVars>>

----------------------------------------------------------------------------
(* Groups in Firestore.  groupDocs holds the documents of collection groups *)
(* and of the subcollections members and expenses; the documents of the     *)
(* subcollections splits are splitDocs.  A subcollection does not go away   *)
(* with the document above it.                                              *)

GroupIds == {"g1", "g2"}

NoDocs == [groups |-> {}, members |-> {}, expenses |-> {}]

\* deleteRun: the groups deleteGroup was called for, and the expenses whose
\* splits get() has not answered yet
NoDeleteRun == [deleted |-> {}, callbacks |-> {}]

MembersOf(docs, groupId) == {m \in docs.members : m.groupId = groupId}

ExpensesOf(docs, groupId) == {e \in docs.expenses : e.groupId = groupId}

\* createGroup: the group document, and the creator as its first member
createGroup(id) ==
    /\ id \notin groupDocs.groups \cup deleteRun.deleted
    /\ groupDocs' = [groupDocs EXCEPT !.groups = @ \cup {id},
                                      !.members = @ \cup {[groupId |-> id, userId |-> "A"]}]
    /\ UNCHANGED <<deleteRun, splitVars>>
    /\ UNCHANGED <<plannerVars, ledgerVars, undoVars, boxVars, lifeVars, callVars>>

\* addMemberToGroup
addMemberToGroup(groupId, userId) ==
    /\ groupId \in groupDocs.groups
    /\ [groupId |-> groupId, userId |-> userId] \notin groupDocs.members
    /\ groupDocs' = [groupDocs EXCEPT
                        !.members = @ \cup {[groupId |-> groupId, userId |-> userId]}]
    /\ UNCHANGED <<deleteRun, splitVars>>
    /\ UNCHANGED <<plannerVars, ledgerVars, undoVars, boxVars, lifeVars, callVars>>

\* groupExpenseService.createGroupExpense, its write to Firestore: set() on
\* the document of the id that generateUUID() gave
setGroupExpenseDoc(groupId, id) ==
    /\ groupId \in groupDocs.groups
    /\ \A e \in groupDocs.expenses : e.id # id
    /\ \A i \in DOMAIN splitDocs : splitDocs[i].expenseId # id
    /\ groupDocs' = [groupDocs EXCEPT !.expenses = @ \cup {[groupId |-> groupId, id |-> id]}]
    /\ UNCHANGED <<deleteRun, splitVars>>
    /\ UNCHANGED <<plannerVars, ledgerVars, undoVars, boxVars, lifeVars, callVars>>

\* deleteGroup up to the return of batch.commit(): the batch holds the
\* deletes of the member documents, of the expense documents and of the
\* group document.  The deletes of the split documents are added in the
\* then() of a get() nobody awaits, which runs after commit() was called.
deleteGroup(id) ==
    /\ id \in groupDocs.groups
    /\ groupDocs' = [groups |-> groupDocs.groups \ {id},
                     members |-> groupDocs.members \ MembersOf(groupDocs, id),
                     expenses |-> groupDocs.expenses \ ExpensesOf(groupDocs, id)]
    /\ deleteRun' = [deleted |-> deleteRun.deleted \cup {id},
                     callbacks |-> deleteRun.callbacks
                                     \cup {e.id : e \in ExpensesOf(groupDocs, id)}]
    /\ UNCHANGED splitVars
    /\ UNCHANGED <<plannerVars, ledgerVars, undoVars, boxVars, lifeVars, callVars>>

\* the then() of doc.ref.collection('splits').get(): batch.delete on a batch
\* that was committed writes nothing
splitsSnapshotThen(expenseId) ==
    /\ expenseId \in deleteRun.callbacks
    /\ deleteRun' = [deleteRun EXCEPT !.callbacks = @ \ {expenseId}]
    /\ UNCHANGED <<groupDocs, splitVars>>
    /\ UNCHANGED <<plannerVars, ledgerVars, undoVars, boxVars, lifeVars, callVars>>

----------------------------------------------------------------------------
(* The rules the model starts from: one rule, or a rule followed by a second *)

IntervalChoices == {<<"daily", 10>>, <<"weekly", 2>>, <<"monthly", 1>>, <<"custom", 25>>}
StartChoices == {0, 30}          \* 2024-01-01, 2024-01-31
EndChoices == {Null, 28, 60}     \* none, 2024-01-29, 2024-03-01
ZoneChoices == {0 - 1, 0, 1}     \* west of UTC, UTC, east of UTC

\* a row as createRecurringExpense inserts it: lastGenerated NULL
NewRule(id, iv, start, end) ==
    [id |-> id, amount |-> 100 * id, category |-> "rent",
     description |-> IF id = 1 THEN "flat" ELSE Null, interval |-> iv[1], intervalValue |-> iv[2],
     startDate |-> start, endDate |-> end, lastGenerated |-> Null, groupId |-> Null]

\* the second rule belongs to group 1
SecondRule == [NewRule(2, <<"monthly", 1>>, 30, Null) EXCEPT !.groupId = 1]

InitRules ==
    LET first == {NewRule(1, iv, s, e) : iv \in IntervalChoices, s \in StartChoices,
                                          e \in EndChoices}
    IN  {<<f>> : f \in first} \cup {<<f, SecondRule>> : f \in first}

InitSplitIdle ==
    /\ expenseSplits = <<>>
    /\ splitDocs = <<>>
    /\ lastSplit = NoSplit

InitUndoIdle ==
    /\ storeExpenses = <<>>
    /\ undoHistory = <<>>
    /\ nextId = 1
    /\ lastOp = NoOp

InitBoxIdle ==
    /\ encryptionKey = FALSE
    /\ keychainOk = TRUE

InitLifeIdle ==
    /\ settings = [biometricEnabled |-> TRUE, autoLockTimeout |-> 5,
                   lastActiveTime |-> NoTime]
    /\ appContent = [appState |-> "active", init |-> "start", isLocked |-> FALSE,
                     isAuthenticating |-> FALSE]
    /\ isLocked = FALSE
    /\ wallMinutes = 1
    /\ sensorAvailable = TRUE
    /\ seen = NothingSeen

InitGroupIdle ==
    /\ groupDocs = NoDocs
    /\ deleteRun = NoDeleteRun

InitCallIdle == undoCalls = NoCalls

InitAppIdle ==
    /\ InitSplitIdle /\ InitUndoIdle /\ InitBoxIdle /\ InitLifeIdle /\ InitGroupIdle
    /\ InitCallIdle

InitLedgerIdle ==
    /\ members = <<>>
    /\ groupExpenses = <<>>
    /\ payments = <<>>
    /\ balances = NoBalances
    /\ settlements = <<>>
    /\ payForm = EmptyPayForm
    /\ lastSubmit = "none"

InitPlanner ==
    /\ tz \in ZoneChoices
    /\ clock = parseISODate(0)
    /\ rules \in InitRules
    /\ expenses = <<>>
    /\ runs = [r \in Runs |-> IdleRun]
    /\ crashes = 0
    /\ InitLedgerIdle
    /\ InitAppIdle

\* the planner invoked at any times, one run at a time
NextPlanner == Tick \/ Invoke(1) \/ StartLoop(1) \/ AfterCreate(1)

SpecPlanner == InitPlanner /\ [][NextPlanner]_vars

\* the same, and the process may die at any await
NextCrash == Tick \/ Invoke(1) \/ StartLoop(1) \/ AfterCreate(1) \/ Crash

SpecCrash == InitPlanner /\ [][NextCrash]_vars

\* the same as NextPlanner, and a write of the run may throw
NextEdit ==
    \/ Tick
    \/ Invoke(1)
    \/ StartLoop(1)
    \/ AfterCreate(1)
    \/ \E updates \in RuleUpdateChoices : updateRecurringExpense(1, updates)

SpecEdit == InitPlanner /\ [][NextEdit]_vars

NextThrow ==
    \/ Tick
    \/ Invoke(1)
    \/ StartLoop(1)
    \/ AfterCreate(1)
    \/ createExpenseThrows(1)
    \/ updateRecurringThrows(1)

SpecThrow == InitPlanner /\ [][NextThrow]_vars

\* two invocations (app launch and resume) whose runs may interleave at
\* their awaits; the runs are short, the clock moves between them only
NextRace ==
    \/ (\A r \in Runs : runs[r].pc \in {"idle", "done"}) /\ Tick
    \/ \E r \in Runs : runs[r].pc = "idle" /\ Invoke(r)
    \/ \E r \in Runs : StartLoop(r)
    \/ \E r \in Runs : AfterCreate(r)

\* the race is looked at for the rules with few occurrences
InitRace ==
    /\ InitPlanner
    /\ \A i \in DOMAIN rules : rules[i].interval \in {"monthly", "custom"}

SpecRace == InitRace /\ [][NextRace]_vars

InitPlannerIdle ==
    /\ clock = 0
    /\ tz = 0
    /\ rules = <<>>
    /\ expenses = <<>>
    /\ runs = [r \in Runs |-> IdleRun]
    /\ crashes = 0

InitLedger ==
    /\ InitPlannerIdle
    /\ InitAppIdle
    /\ members = <<"A", "B", "C", "D">>
    /\ groupExpenses = <<>>
    /\ payments = <<>>
    /\ balances = NoBalances
    /\ settlements = <<>>
    /\ payForm = EmptyPayForm
    /\ lastSubmit = "none"

NextLedger ==
    \/ \E form \in ExpenseForms : handleSubmit(form)
    \/ loadGroupData
    \/ \E from \in PayerChoices, to \in PayeeChoices, amount \in PaymentAmountChoices :
          EnterPayment(from, to, amount)
    \/ \E i \in 1..Cardinality(MemberIds) : handleUseSuggestion(i)
    \/ handleRecordPayment

SpecLedger == InitLedger /\ [][NextLedger]_vars

\* the members were added in any order: their ids are generated, the list is
\* read ordered by createdAt
InitSuggest ==
    /\ InitPlannerIdle
    /\ InitAppIdle
    /\ members \in {ms \in [1..Cardinality(MemberIds) -> MemberIds] : Range(ms) = MemberIds}
    /\ groupExpenses = <<>>
    /\ payments = <<>>
    /\ balances = NoBalances
    /\ settlements = <<>>
    /\ payForm = EmptyPayForm
    /\ lastSubmit = "none"

NextSuggest ==
    \/ \E form \in ExpenseForms : handleSubmit(form)
    \/ loadGroupData

SpecSuggest == InitSuggest /\ [][NextSuggest]_vars

NextMembers ==
    \/ \E form \in ExpenseForms : handleSubmit(form)
    \/ loadGroupData
    \/ \E m \in MemberIds : removeMemberFromGroup(m)

SpecMembers == InitLedger /\ [][NextMembers]_vars

InitSplit ==
    /\ InitPlannerIdle
    /\ InitLedgerIdle
    /\ InitAppIdle

NextSplit ==
    \/ \E e \in SplitExpenseIds, ms \in MemberListChoices :
          splitExpenseEqually(e, ms, SplitTotal) /\ UNCHANGED otherThanSplit
    \/ \E e \in SplitExpenseIds, input \in PercentageChoices :
          splitExpenseByPercentage(e, input, SplitTotal) /\ UNCHANGED otherThanSplit
    \/ \E e \in SplitExpenseIds, input \in AmountChoices :
          splitExpenseByAmount(e, input) /\ UNCHANGED otherThanSplit
    \/ \E e \in SplitExpenseIds, input \in SplitDocChoices :
          createExpenseSplits("g1", e, input) /\ UNCHANGED otherThanSplit

SpecSplit == InitSplit /\ [][NextSplit]_vars

InitUndo ==
    /\ InitPlannerIdle
    /\ InitLedgerIdle
    /\ InitAppIdle

NextUndo ==
    \/ \E input \in NewExpenseChoices : AddExpenseSubmit(input)
    \/ \E input \in NewExpenseChoices : handleSubmitPersonal(input)
    \/ \E id \in 1..MaxIds, updates \in UpdateChoices : EditExpense(id, updates)
    \/ \E id \in 1..MaxIds : handleDelete(id)
    \/ handleUndo
    \/ ExpensesScreenMount
    \/ SaveOtherUndo

\* the operations of one session: every entry of undo_history is younger
\* than the retention window, the keychain is readable
SpecUndo == InitUndo /\ [][NextUndo]_vars

InitGroup ==
    /\ InitPlannerIdle
    /\ InitLedgerIdle
    /\ InitAppIdle

NextUndoRace ==
    \/ \E input \in NewExpenseChoices : AddExpenseSubmit(input)
    \/ \E id \in 1..MaxIds : handleDelete(id)
    \/ \E c \in Calls : undoRead(c)
    \/ \E c \in Calls : undoApply(c)

SpecUndoRace == InitUndo /\ [][NextUndoRace]_vars

NextGroup ==
    \/ \E g \in GroupIds : createGroup(g)
    \/ \E g \in GroupIds : addMemberToGroup(g, "B")
    \/ \E g \in GroupIds, e \in SplitExpenseIds : setGroupExpenseDoc(g, e)
    \/ \E x \in groupDocs.expenses, input \in SplitDocChoices :
          createExpenseSplits(x.groupId, x.id, input) /\ UNCHANGED otherThanSplit
    \/ \E g \in GroupIds : deleteGroup(g)
    \/ \E e \in SplitExpenseIds : splitsSnapshotThen(e)

SpecGroup == InitGroup /\ [][NextGroup]_vars

\* the process is launched in the foreground or in the background, with the
\* settings an earlier process left
InitApp ==
    /\ InitPlannerIdle
    /\ InitLedgerIdle
    /\ InitSplitIdle
    /\ InitUndoIdle
    /\ InitBoxIdle
    /\ InitGroupIdle
    /\ InitCallIdle
    /\ settings \in [biometricEnabled : BOOLEAN, autoLockTimeout : TimeoutChoices,
                      lastActiveTime : {NoTime, 1}]
    /\ appContent \in [appState : {"active", "background"}, init : {"start"},
                        isLocked : {FALSE}, isAuthenticating : {FALSE}]
    /\ isLocked = FALSE
    /\ wallMinutes = 1
    /\ sensorAvailable \in BOOLEAN
    /\ seen = NothingSeen

NextApp ==
    \/ initializeApp
    \/ initializeAppLockCheck
    \/ \E nextAppState \in AppStates : handleAppStateChange(nextAppState)
    \/ handleAuthenticate
    \/ \E success \in BOOLEAN, again \in BOOLEAN : promptAnswered(success, again)
    \/ MinutePasses
    \/ encrypt
    \/ decrypt
    \/ KeychainChange

SpecApp == InitApp /\ [][NextApp]_vars

\* the same; the steps of initializeApp are taken once they can be
SpecAppFair ==
    SpecApp /\ WF_vars(initializeApp) /\ WF_vars(initializeAppLockCheck)

----------------------------------------------------------------------------
(* Planner: what the claims speak of *)

\* the dates of the expenses materialized for a rule, in insertion order
RECURSIVE DatesOf(_, _)
DatesOf(rows, id) ==
    IF rows = <<>> THEN <<>>
    ELSE (IF Head(rows).rule = id THEN <<Head(rows).date>> ELSE <<>>)
         \o DatesOf(Tail(rows), id)

\* one whole run of the planner over one pattern: the dates it materializes
RECURSIVE RunDates(_, _, _)
RunDates(pattern, currentDate, now) ==
    IF LoopCreates(pattern, currentDate, now)
    THEN <<toISODate(currentDate)>>
         \o RunDates(pattern, getNextDate(currentDate, pattern.interval,
                                          pattern.intervalValue), now)
    ELSE <<>>

\* ... and the lastGenerated it leaves
RECURSIVE RunLast(_, _, _, _)
RunLast(pattern, last, currentDate, now) ==
    IF LoopCreates(pattern, currentDate, now)
    THEN RunLast(pattern, currentDate,
                 getNextDate(currentDate, pattern.interval, pattern.intervalValue), now)
    ELSE last

\* the planner invoked at every tick of the rule's interval, from tick on and
\* up to now: the dates it materializes
RECURSIVE TickDates(_, _, _)
TickDates(pattern, tick, now) ==
    IF isBefore(now, tick) THEN <<>>
    ELSE LET ended == PatternEnded(pattern, tick)
             out == IF ended THEN <<>> ELSE RunDates(pattern, FirstDate(pattern), tick)
             last == IF ended THEN pattern.lastGenerated
                     ELSE RunLast(pattern, pattern.lastGenerated, FirstDate(pattern), tick)
         IN  out \o TickDates([pattern EXCEPT !.lastGenerated = last],
                              getNextDate(tick, pattern.interval, pattern.intervalValue),
                              now)

Fresh(rule) == [rule EXCEPT !.lastGenerated = Null]

\* C1: whenever a run of the planner has returned, the expenses materialized
\* for each rule are the sequence that invoking the planner at every tick of
\* the rule's interval (up to the time of that run) produces: nothing is
\* skipped and nothing is duplicated, whatever the times of the invocations.
C1_SameAsEveryTick ==
    runs[1].pc = "done" =>
        \A i \in DOMAIN rules :
            DatesOf(expenses, rules[i].id)
              = TickDates(Fresh(rules[i]), parseISODate(rules[i].startDate), runs[1].now)

\* C4: a run whose now equals the now of the run before it (no time elapsed)
\* materializes nothing.
C4_SecondRunGeneratesNothing ==
    (runs[1].pc = "done" /\ runs[1].repeat) => runs[1].generated = <<>>

C4_Witness ==
    /\ runs[1].pc = "done"
    /\ runs[1].repeat
    /\ runs[1].generated = <<>>
    /\ expenses # <<>>

\* the local days of the occurrences L+I, L+2I, ... that are <= now
RECURSIVE OccurrenceDays(_, _, _)
OccurrenceDays(pattern, occ, now) ==
    IF toDateString(occ) <= toDateString(now)
    THEN <<toDateString(occ)>>
         \o OccurrenceDays(pattern, getNextDate(occ, pattern.interval,
                                                pattern.intervalValue), now)
    ELSE <<>>

RECURSIVE LastOccurrence(_, _, _, _)
LastOccurrence(pattern, last, occ, now) ==
    IF toDateString(occ) <= toDateString(now)
    THEN LastOccurrence(pattern, occ, getNextDate(occ, pattern.interval,
                                                  pattern.intervalValue), now)
    ELSE last

\* C5: a run over a single rule with no end date materializes exactly one
\* expense dated with each occurrence L+I, L+2I, ... <= now, in increasing
\* order, and leaves lastGenerated at the last of them.
C5_ExactlyTheMissedOccurrences ==
    (runs[1].pc = "done" /\ Len(runs[1].patterns) = 1
                         /\ runs[1].patterns[1].endDate = Null)
        => LET p == runs[1].patterns[1]
           IN  /\ runs[1].generated = OccurrenceDays(p, FirstDate(p), runs[1].now)
               /\ rules[1].lastGenerated
                    = LastOccurrence(p, p.lastGenerated, FirstDate(p), runs[1].now)

\* C6: after a crash at any point of a run, running the planner again
\* materializes no occurrence a second time: no two expenses of one rule
\* carry the same date.
C6_NoDuplicateAfterCrash ==
    \A i, j \in DOMAIN expenses :
        (i # j /\ expenses[i].rule = expenses[j].rule)
            => expenses[i].date # expenses[j].date

\* C7: no occurrence of a rule is recorded as an expense by both of two
\* interleaved runs.
C7_NoDoubleMaterialization ==
    \A i, j \in DOMAIN expenses :
        (expenses[i].rule = expenses[j].rule /\ expenses[i].date = expenses[j].date)
            => expenses[i].by = expenses[j].by

----------------------------------------------------------------------------
(* Ledger: what the claims speak of *)

RECURSIVE SumValues(_, _)
SumValues(b, keys) ==
    IF keys = {} THEN 0
    ELSE LET k == CHOOSE x \in keys : TRUE
         IN  b[k].v + SumValues(b, keys \ {k})

CurrentBalances == calculateGroupBalances(members, groupExpenses, payments)

\* C2: whatever expenses and payments the group has, the balances that
\* calculateGroupBalances returns sum to zero within one minor unit.
C2_BalancesSumToZero == Abs(SumValues(CurrentBalances, MemberIds)) <= Cent

\* C3: the splits stored for an expense sum to the amount of the expense
\* exactly, whatever the split policy.
C3_SplitsSumToAmount ==
    \A i \in DOMAIN groupExpenses :
        SumAmounts(groupExpenses[i].splits) = groupExpenses[i].amount

\* every transfer applied to the map: the amount added to the balance of
\* from, subtracted from the balance of to
RECURSIVE ApplyTransfers(_, _)
ApplyTransfers(b, transfers) ==
    IF transfers = <<>> THEN b
    ELSE ApplyTransfers(AddTo(AddTo(b, Head(transfers).from, Head(transfers).amount),
                              Head(transfers).to, 0 - Head(transfers).amount),
                        Tail(transfers))

\* C8: the suggested transfers, applied to the balances they were computed
\* from, leave every balance within one minor unit of zero.
C8_TransfersSettleEveryBalance ==
    \A m \in MemberIds : Abs(ApplyTransfers(balances, settlements)[m].v) <= Cent

\* C9: a payment of p from a member who owes d to a member who is owed c,
\* with p <= min(c, d), moves the payer's balance from -d to -d + p and the
\* payee's from c to c - p.
C9_PaymentReducesDebt ==
    [][payments' # payments =>
          LET p == payments'[Len(payments')]
              before == calculateGroupBalances(members, groupExpenses, payments)
              after == calculateGroupBalances(members', groupExpenses', payments')
          IN  (/\ before[p.fromMemberId].v < 0
               /\ before[p.toMemberId].v > 0
               /\ p.amount <= Min(0 - before[p.fromMemberId].v, before[p.toMemberId].v))
              => /\ after[p.fromMemberId].v = before[p.fromMemberId].v + p.amount
                 /\ after[p.toMemberId].v = before[p.toMemberId].v - p.amount]_vars

\* the members whose balance magnitude exceeds epsilon
Unsettled(b) == {m \in Range(members) : Abs(b[m].v) > Cent}

\* C10: when some member's balance exceeds epsilon in magnitude, the number
\* of suggested transfers is at most the number of such members minus one.
C10_AtMostMembersMinusOne ==
    Cardinality(Unsettled(balances)) >= 1
        => Len(settlements) <= Cardinality(Unsettled(balances)) - 1

C10_Witness ==
    /\ Len(settlements) >= 3
    /\ Len(settlements) = Cardinality(Unsettled(balances)) - 1

----------------------------------------------------------------------------
(* Splits: what the claims speak of *)

\* the splits stored for the expense of the last split operation, in the
\* store that operation writes
StoredSplitsOfLast ==
    IF lastSplit.op = "createExpenseSplits"
    THEN SplitsByExpense(splitDocs, lastSplit.expenseId)
    ELSE SplitsByExpense(expenseSplits, lastSplit.expenseId)

\* C11: after any sequence of split operations on an expense, the splits
\* stored for it are exactly those the last operation produced (replaced,
\* never merged or accumulated).
C11_SplitsAreThoseOfLastOperation ==
    lastSplit.op # "none" => StoredSplitsOfLast = lastSplit.rows

\* C12: a split by percentage whose percentages do not sum to 100 within
\* 0.01, or by amount whose amounts do not sum to the amount of the expense
\* within 0.01, fails with InvalidSplit and leaves the stored splits as they
\* were.
C12_InvalidSplitRejected ==
    [][(lastSplit' # lastSplit /\ ~lastSplit'.valid)
          => (lastSplit'.result = "InvalidSplit" /\ expenseSplits' = expenseSplits
                                                 /\ splitDocs' = splitDocs)]_vars

----------------------------------------------------------------------------
(* Undo: what the claims speak of *)

\* the last operation was an undoLastAction called right after a kind
UndoRightAfter(kind) == lastOp.kind = "undo" /\ lastOp.of = kind

\* C13: adding an expense X and then calling undoLastAction leaves table
\* expenses as it was before the add: X is gone, every other expense is as it
\* was, no extra expense remains.
C13_AddThenUndo == UndoRightAfter("add") => expenses = lastOp.pre

C15_DeleteThenUndo ==
    (UndoRightAfter("delete") /\ lastOp.result = "ok")
        => \E i \in DOMAIN expenses : expenses[i] = ById(lastOp.pre, lastOp.id)

\* C16: an undoLastAction that fails (the inverse operation throws, or the
\* entity type of the entry is not handled) leaves undo_history as it was, so
\* the next undoLastAction reads the same entry; an undoLastAction removes an
\* entry only when its inverse went through, and then only that entry.
C16_FailedUndoKeepsEntry ==
    [][/\ (lastOp'.kind = "undo" /\ lastOp'.result \in {"threw", "unhandled"})
            => (undoHistory' = undoHistory /\ undoHistory # <<>>)
       /\ (lastOp'.kind = "undo" /\ undoHistory' # undoHistory)
            => (/\ lastOp'.result = "ok"
                /\ undoHistory' = SubSeq(undoHistory, 1, Len(undoHistory) - 1))]_vars

C16_Witness ==
    /\ lastOp.kind = "undo"
    /\ lastOp.of = "undo"
    /\ lastOp.result = "threw"
    /\ undoHistory # <<>>
    /\ undoHistory[Len(undoHistory)].entityType = "expense"

----------------------------------------------------------------------------
(* The life of the app: what the claims speak of *)

\* C17: between lockEncryptionKey and the next authenticate() that succeeds,
\* no encrypt or decrypt goes through and the key stays unavailable.
C17_LockedKeyStaysUnavailable ==
    seen.keyLocked => (seen.lastCrypt \in {"none", "threw"} /\ ~encryptionKey)

\* C30: while isAppLocked() is true the encryption key is not held in
\* memory, whatever lockApp, unlockApp, encrypt, decrypt and
\* initEncryptionKey were called before.
C30_LockedMeansNoKey == isLocked => ~encryptionKey

\* C19: with the biometric lock enabled and a sensor available, the lock
\* screen goes away only when authenticate() has returned success since it
\* came up.
C19_UnlockOnlyAfterAuthenticate ==
    [][(settings.biometricEnabled /\ sensorAvailable
          /\ appContent.isLocked /\ ~appContent'.isLocked) => seen'.authenticated]_vars

C19_Witness ==
    /\ settings.biometricEnabled
    /\ sensorAvailable
    /\ isInitialized
    /\ seen.resumePending
    /\ seen.authenticated
    /\ ~appContent.isLocked
    /\ ~isLocked

\* C20: every change of the app state from inactive or background to active
\* is eventually followed by an invocation of generateRecurringExpenses.
C20_ResumeLeadsToPlannerRun == seen.resumePending ~> ~seen.resumePending

----------------------------------------------------------------------------
(* Groups: what the claims speak of *)

\* what is stored under a group: members, expenses, splits of its expenses
StoredUnder(groupId) ==
    [members |-> MembersOf(groupDocs, groupId),
     expenses |-> ExpensesOf(groupDocs, groupId),
     splits |-> SelectSeq(splitDocs, LAMBDA d : d.groupId = groupId)]

\* C18: once deleteGroup has completed for a group (its batch committed, the
\* callbacks it left have run), no member, no expense and no split of that
\* group remains.
C18_DeleteGroupCascades ==
    \A g \in deleteRun.deleted :
        deleteRun.callbacks = {}
            => StoredUnder(g) = [members |-> {}, expenses |-> {}, splits |-> <<>>]

----------------------------------------------------------------------------
(* Members of the group *)
\* a split of an expense of the group is for the member, or the member paid one
Referenced(memberId) ==
    \E i \in DOMAIN groupExpenses :
        \/ groupExpenses[i].paidByMemberId = memberId
        \/ \E k \in DOMAIN groupExpenses[i].splits :
              groupExpenses[i].splits[k].memberId = memberId

\* C27: a member that a split refers to, or that paid an expense, cannot be
\* removed: the member is still a member of the group after every step.
C27_ReferencedMemberStays ==
    [][\A m \in Range(members) : Referenced(m) => m \in Range(members')]_vars

(* The suggestions and the order the members are stored in *)
\* the member ids in the order of string comparison
IdOrder == <<"A", "B", "C", "D">>
IdRank(memberId) == CHOOSE i \in DOMAIN IdOrder : IdOrder[i] = memberId

\* largest amount first, and among equal amounts the smaller member id first
ByAmountThenId(list) ==
    \A i, j \in DOMAIN list :
        i < j => \/ list[i].amount > list[j].amount
                 \/ /\ list[i].amount = list[j].amount
                    /\ IdRank(list[i].memberId) < IdRank(list[j].memberId)

SortedCreditors ==
    SortDesc(Creditors(members, calculateGroupBalances(members, groupExpenses, payments)))

SortedDebtors ==
    SortDesc(Debtors(members, calculateGroupBalances(members, groupExpenses, payments)))

\* C28: the creditors and the debtors that getSettlementSuggestions walks are
\* ordered by balance magnitude, largest first, and among equal magnitudes by
\* member id, whatever the order the members are stored in.
C28_TiesBrokenByMemberId ==
    ByAmountThenId(SortedCreditors) /\ ByAmountThenId(SortedDebtors)

\* the same, without the condition on equal magnitudes
LargestFirst(list) ==
    \A i, j \in DOMAIN list : i < j => list[i].amount >= list[j].amount

\* what getSettlementSuggestions returns for the group as it is now
SuggestionsNow == getSettlementSuggestions(members, groupExpenses, payments)

BalancesNow == calculateGroupBalances(members, groupExpenses, payments)

\* C29: every suggested transfer is well formed: it goes from a current
\* member who owes more than one minor unit to a current member who is owed
\* more than one minor unit, the two differ, the amount is positive, and no
\* member pays in one transfer and receives in another.
C29_TransfersWellFormed ==
    LET list == SuggestionsNow
        b == BalancesNow
    IN  /\ \A i \in DOMAIN list :
              /\ list[i].from \in Range(members) /\ b[list[i].from].v < 0 - Cent
              /\ list[i].to \in Range(members) /\ b[list[i].to].v > Cent
              /\ list[i].from # list[i].to
              /\ list[i].amount > 0
        /\ \A i, j \in DOMAIN list : list[i].from # list[j].to

\* two transfers are suggested in a group that a payer and a member with a
\* split have left, and the screen shows them
C29_Witness ==
    /\ Len(SuggestionsNow) >= 2
    /\ settlements = SuggestionsNow
    /\ \E m \in MemberIds \ Range(members) : Referenced(m)
    /\ \E i \in DOMAIN groupExpenses : groupExpenses[i].paidByMemberId \notin Range(members)

(* Calls of undoLastAction in flight *)
\* the entry the call read is still in the table
StillRecorded(call) ==
    call.pos <= Len(undoHistory) /\ undoHistory[call.pos] = call.action

\* this step is call c applying the inverse of the entry it read
AppliesInverse(c) ==
    /\ undoCalls[c].pc = "read" /\ undoCalls'[c].pc = "idle"
    /\ UndoOutcomeOf(StoreState, undoCalls[c].action).result = "ok"

\* C25: an undo entry is consumed by a single undo: whenever a call of
\* undoLastAction applies the inverse of the entry it read, that entry is
\* still in the log, so no other call has applied and removed it before.
C25_EntryAppliedAtMostOnce ==
    [][\A c \in Calls : AppliesInverse(c) => StillRecorded(undoCalls[c])]_vars

\* C26: only the most recent entry is undoable: after a successful undo, a
\* further undo with no action recorded in between applies no inverse, it
\* leaves table expenses and the older entries of the log as they are.
C26_NoSecondLevelUndo ==
    [][(lastOp.kind = "undo" /\ lastOp.result = "ok" /\ lastOp'.kind = "undo")
          => (expenses' = expenses /\ undoHistory' = undoHistory)]_vars

(* Planner, the rules table: what the claims speak of *)

\* C21: no write to a rule's lastGenerated stores an instant earlier than the
\* one stored before it, two interleaved runs of the planner included.
C21_LastGeneratedNeverGoesBack ==
    [][\A i \in DOMAIN rules :
          rules[i].lastGenerated # Null
              => /\ rules'[i].lastGenerated # Null
                 /\ ~isBefore(rules'[i].lastGenerated, rules[i].lastGenerated)]_vars

\* C24: a step of the planner changes no field of a rule other than
\* lastGenerated: the fields a user edit wrote stay as written, also when
\* the edit completed while the run was suspended at an await.
C24_PlannerWritesOnlyLastGenerated ==
    [][runs' # runs =>
          \A i \in DOMAIN rules :
              [rules'[i] EXCEPT !.lastGenerated = Null]
                  = [rules[i] EXCEPT !.lastGenerated = Null]]_vars

\* the rule an expense of the planner was materialized from
RuleOf(e) == CHOOSE i \in DOMAIN rules : rules[i].id = e.rule

\* C23: every expense the planner has stored carries the amount, category,
\* description and group of its rule; for a rule with a group id the stored
\* expense has that group id.
C23_MaterializedCarriesRuleFields ==
    \A k \in DOMAIN expenses :
        LET e == expenses[k]  rule == rules[RuleOf(e)]
        IN  /\ e.amount = rule.amount
            /\ e.category = rule.category
            /\ e.description = rule.description
            /\ e.groupId = rule.groupId

\* the same for amount, category and description alone
AmountCategoryDescriptionKept ==
    \A k \in DOMAIN expenses :
        LET e == expenses[k]  rule == rules[RuleOf(e)]
        IN  e.amount = rule.amount /\ e.category = rule.category
            /\ e.description = rule.description

\* an occurrence of the rule is due at now and not materialized
Due(rule, now) == ~PatternEnded(rule, now) /\ LoopCreates(rule, FirstDate(rule), now)

\* C22: when a run ends because a write for one rule threw, every other rule
\* has all of its due occurrences materialized: none of them has an
\* occurrence left that is due at the now of the run.
C22_OtherRulesStillGenerated ==
    runs[1].pc = "threw"
        => \A i \in DOMAIN rules : i # runs[1].idx => ~Due(rules[i], runs[1].now)

====
